---- MODULE Spec2Model ----
(***************************************************************************)
(* Model of MusicDatabase (src/music-playlist-manager.py): the directory   *)
(* and extension configuration, scan_directories / _scan_worker /          *)
(* cancel_scan with the worker threads they start, and search (Spec,       *)
(* ShortSpec, FairSpec); search, match_playlist and match_query on a       *)
(* fixed record set (QuerySpec); the construction of one MusicFile with    *)
(* _parse_filename and _extract_metadata (ParseSpec); add_directory,       *)
(* remove_directory and set_extensions with what they return (ConfigSpec); *)
(* repeated scans of a configured database (RescanSpec); the Scan button   *)
(* of MusicPlaylistManagerApp (AppSpec); SpotifyExtractor.extract_playlist *)
(* and cancel_extraction of src/spotify_extractor.py (ExtractSpec).        *)
(*                                                                         *)
(* File names and extensions are sequences of one-character strings, so    *)
(* that os.path.splitext, str.lower and the [1:] slice are computed.       *)
(***************************************************************************)
EXTENDS Integers, Sequences, FiniteSets, TLC

\* ------------------------------------------------------------------ bounds

\* Number of scan worker threads the caller may start in one behaviour.
MaxScans == 2

\* Number of add_directory / remove_directory / set_extensions calls.
MaxConfigOps == 2

\* Number of calls that start a scan or change the configuration.
MaxCalls == 3

\* The same number in the shorter behaviours of ShortSpec and FairSpec.
MaxShortCalls == 2

\* ------------------------------------------------------------ file system

\* An existing directory and a directory nested inside it.
MusicDir == "/music"

SubDir == "/music/sub"

\* A path that is not a directory.
MissingDir == "/nope"

\* Arguments the caller passes to add_directory / remove_directory.
DirNames == {MusicDir, SubDir}

\* os.path.isdir
IsDir(d) == d \in {MusicDir, SubDir}

FileX == <<"x", ".", "m", "p", "3">>

FileY == <<"Y", ".", "F", "L", "A", "C">>

\* os.walk(directory) flattened to the (root, file) pairs the nested loops
\* visit, top-down: the files of the directory, then those of its subdirectory.
Walk(d) ==
    IF d = MusicDir
    THEN << [root |-> MusicDir, file |-> FileX],
            [root |-> SubDir, file |-> FileY] >>
    ELSE IF d = SubDir
    THEN << [root |-> SubDir, file |-> FileY] >>
    ELSE << >>

\* os.path.join(root, file): the path, kept as its two components.
PathJoin(root, file) == [dir |-> root, name |-> file]

\* Files whose os.path.getsize raises, so that MusicFile(full_path) raises.
Unreadable == {PathJoin(MusicDir, FileX)}

\* ---------------------------------------------------------------- strings

UpperCase == <<"A", "B", "C", "D", "E", "F", "G", "H", "I", "J", "K", "L", "M",
               "N", "O", "P", "Q", "R", "S", "T", "U", "V", "W", "X", "Y", "Z">>

LowerCase == <<"a", "b", "c", "d", "e", "f", "g", "h", "i", "j", "k", "l", "m",
               "n", "o", "p", "q", "r", "s", "t", "u", "v", "w", "x", "y", "z">>

\* str.lower on one character.
LowerChar(c) ==
    IF \E i \in 1..Len(UpperCase) : UpperCase[i] = c
    THEN LowerCase[CHOOSE i \in 1..Len(UpperCase) : UpperCase[i] = c]
    ELSE c

\* str.lower
Lower(s) == [i \in 1..Len(s) |-> LowerChar(s[i])]

\* Index of the last "." of s, 0 when there is none (str.rfind, 1-based).
LastDot(s) ==
    IF \E i \in 1..Len(s) : s[i] = "."
    THEN CHOOSE i \in 1..Len(s) :
            s[i] = "." /\ \A j \in (i + 1)..Len(s) : s[j] # "."
    ELSE 0

\* os.path.splitext(file)[1] for a file name without separators: the suffix
\* from the last dot, provided some character before that dot is not a dot.
SplitExtSuffix(s) ==
    LET d == LastDot(s)
    IN  IF d > 0 /\ \E k \in 1..(d - 1) : s[k] # "."
        THEN SubSeq(s, d, Len(s))
        ELSE << >>

\* os.path.splitext(file)[1].lower()[1:]
FileExt(file) ==
    LET e == Lower(SplitExtSuffix(file))
    IN  IF Len(e) = 0 THEN << >> ELSE Tail(e)

\* ------------------------------------------------------ MusicFile parsing

Digits == <<"0", "1", "2", "3", "4", "5", "6", "7", "8", "9">>

\* \d, \s and \w of the re module, on one character.
IsDigit(c) == \E i \in 1..Len(Digits) : Digits[i] = c

SpaceChars == {" ", "\t"}

IsSpace(c) == c \in SpaceChars

IsWord(c) ==
    \/ IsDigit(c)
    \/ c = "_"
    \/ \E i \in 1..Len(LowerCase) : LowerCase[i] = c \/ UpperCase[i] = c

\* os.path.splitext(file)[0]
SplitExtRoot(s) == SubSeq(s, 1, Len(s) - Len(SplitExtSuffix(s)))

\* os.path.basename(full_path)
Basename(full_path) == full_path.name

\* str.strip
Strip(s) ==
    LET inked == {i \in 1..Len(s) : ~IsSpace(s[i])}
    IN  IF inked = {}
        THEN << >>
        ELSE SubSeq(s, CHOOSE i \in inked : \A j \in inked : i <= j,
                       CHOOSE i \in inked : \A j \in inked : j <= i)

\* int(digits)
RECURSIVE ToInt(_)
ToInt(ds) ==
    IF ds = << >>
    THEN 0
    ELSE 10 * ToInt(SubSeq(ds, 1, Len(ds) - 1))
         + (CHOOSE i \in 1..Len(Digits) : Digits[i] = ds[Len(ds)]) - 1

\* Where the longest run of characters of the class `chars` that starts at
\* position `from` of s ends: a greedy `[chars]*` of the re module.
RunEnd(s, from, chars) ==
    CHOOSE k \in (from - 1)..Len(s) :
        /\ \A i \in from..k : s[i] \in chars
        /\ (k = Len(s) \/ s[k + 1] \notin chars)

\* The characters of \d and of [\s_-].
DigitChars == {Digits[i] : i \in 1..Len(Digits)}

TrackSeparators == SpaceChars \cup {"_", "-"}

\* self.track_num = None
NoTrack == -1

\* track_pattern r'^(\d+)[\s_-]*': where the digits and the whole match end.
TrackDigitsEnd(s) == RunEnd(s, 1, DigitChars)

TrackMatchEnd(s) == RunEnd(s, TrackDigitsEnd(s) + 1, TrackSeparators)

\* re.sub(track_pattern, '', name_without_ext) when the pattern matches.
Detracked(s) ==
    IF TrackDigitsEnd(s) > 0 THEN SubSeq(s, TrackMatchEnd(s) + 1, Len(s)) ELSE s

\* re.match found nothing.
NoMatch == [ok |-> FALSE, g1 |-> << >>, g2 |-> << >>]

\* First index of s at which `sep` occurs, 0 when it does not occur: where
\* a lazy first group followed by the literal `sep` ends.
FirstIndex(s, sep) ==
    LET IsAt(i) == /\ i + Len(sep) - 1 <= Len(s)
                   /\ SubSeq(s, i, i + Len(sep) - 1) = sep
    IN  IF \E i \in 1..Len(s) : IsAt(i)
        THEN CHOOSE i \in 1..Len(s) : IsAt(i) /\ \A j \in 1..(i - 1) : ~IsAt(j)
        ELSE 0

\* re.match(r'^(.*?)\s*-\s*(.*?)$', s): the lazy first group ends before the
\* whitespace in front of the first hyphen, the greedy \s* after the hyphen
\* takes all the whitespace there, the second group takes the rest.
HyphenPattern(s) ==
    LET h == FirstIndex(s, <<"-">>)
        IsEnd(k) == \A i \in (k + 1)..(h - 1) : IsSpace(s[i])
        k == CHOOSE i \in 0..(h - 1) :
                 IsEnd(i) /\ \A j \in 0..(i - 1) : ~IsEnd(j)
    IN  IF h = 0
        THEN NoMatch
        ELSE [ok |-> TRUE,
              g1 |-> SubSeq(s, 1, k),
              g2 |-> SubSeq(s, RunEnd(s, h + 1, SpaceChars) + 1, Len(s))]

\* re.match(r'^(.*?)SEP(.*?)$', s) for a literal separator: the lazy first
\* group ends at the first occurrence of the separator.
SeparatorPattern(s, sep) ==
    LET at == FirstIndex(s, sep)
    IN  IF at = 0
        THEN NoMatch
        ELSE [ok |-> TRUE,
              g1 |-> SubSeq(s, 1, at - 1),
              g2 |-> SubSeq(s, at + Len(sep), Len(s))]

\* artist_first_patterns and song_first_patterns (the same three patterns),
\* matched against the de-tracked stem.
FilenamePatterns(s) ==
    << HyphenPattern(s),
       SeparatorPattern(s, <<"_", "-", "_">>),
       SeparatorPattern(s, <<"_">>) >>

\* One `for pattern in ...` loop of _parse_filename from pattern i on: each
\* match assigns both fields, and the method returns when both are non-empty.
RECURSIVE TryPatterns(_, _, _, _)
TryPatterns(st, matches, i, artist_first) ==
    IF st.returned \/ i > Len(matches)
    THEN st
    ELSE IF ~matches[i].ok
    THEN TryPatterns(st, matches, i + 1, artist_first)
    ELSE LET first == Strip(matches[i].g1)
             second == Strip(matches[i].g2)
             artist == IF artist_first THEN first ELSE second
             song == IF artist_first THEN second ELSE first
         IN  TryPatterns([artist |-> artist, song |-> song,
                          returned |-> artist # << >> /\ song # << >>],
                         matches, i + 1, artist_first)

\* MusicFile._parse_filename
ParseFilename(filename) ==
    LET stem == SplitExtRoot(filename)
        name_without_ext == Detracked(stem)
        matches == FilenamePatterns(name_without_ext)
        unset == [artist |-> << >>, song |-> << >>, returned |-> FALSE]
        st == TryPatterns(TryPatterns(unset, matches, 1, TRUE), matches, 1, FALSE)
    IN  [artist |-> st.artist,
         song |-> IF ~st.returned /\ st.artist = << >> /\ st.song = << >>
                  THEN name_without_ext
                  ELSE st.song,
         track_num |-> IF TrackDigitsEnd(stem) > 0
                       THEN ToInt(SubSeq(stem, 1, TrackDigitsEnd(stem)))
                       ELSE NoTrack]

\* -------------------------------------------------------------- constants

\* MusicDatabase.__init__: the default extension filter.
DefaultExtensions ==
    { <<"m", "p", "3">>, <<"m", "4", "a">>, <<"f", "l", "a", "c">>,
      <<"o", "g", "g">>, <<"a", "a", "c">>, <<"w", "a", "v">> }

\* Arguments the caller passes to set_extensions.
ExtensionChoices == { { <<"m", "p", "3">> } }

\* progress_callback=None, and the sink a caller passes.
NoCallback == "None"

Callbacks == {NoCallback, "update_scan_progress"}

\* The worker threads, in the order scan_directories starts them.
Workers == 1..MaxScans

\* self.scan_thread = None
NoThread == 0

\* The count carried by a progress message that embeds none.
NoCount == -1

MsgStart == "Starting scan..."

MsgCancelled == "Scan cancelled."

MsgScanned == "Scanned"

MsgComplete == "Scan complete."

MsgError == "Error during scan"

\* The messages that end a scan: completion, cancellation, error.
TerminalMessages == {MsgComplete, MsgCancelled, MsgError}

\* ------------------------------------------------------------------ state

VARIABLES
    music_files,            \* self.music_files: sequence of MusicFile records
    directories,            \* self.directories
    file_extensions,        \* self.file_extensions
    is_scanning,            \* self.is_scanning
    scan_thread,            \* self.scan_thread: NoThread or a worker
    scan_progress_callback, \* self.scan_progress_callback
    pc,                     \* position of each worker thread in _scan_worker
    total_files,            \* _scan_worker local, per worker
    processed_files,        \* _scan_worker local, per worker
    dir_iter,               \* index of the list iterator over self.directories
    directory,              \* loop variable `directory`, per worker
    file_iter,              \* files of os.walk(directory) already visited
    caller,                 \* the calling thread: "idle", "joining", "searching"
    scan_ret,               \* what the latest scan_directories call returned
    config_ops,             \* configuration calls made so far
    reports,                \* progress callbacks each worker has delivered
                            \* (this and the per-worker histories below are
                            \* dropped, for a scan that has ended, when the
                            \* next scan is started)
    outcome,                \* how each worker's try block ended
    built,                  \* records each worker has appended
    snap_total,             \* qualifying files under the configuration at start
    cancel_after_start,     \* cancel_scan was called after the scan started
    cancel_while_alive,     \* cancel_scan was called while the worker ran
    last_complete,          \* music_files at the latest completion
    search_view,            \* what a running search iterates, and last_complete then
    result,                 \* the latest call of search, match_playlist,
                            \* match_query, MusicFile, add_directory,
                            \* remove_directory or set_extensions, with what
                            \* it returned
    scan_button,            \* MusicPlaylistManagerApp.scan_button: its state
    is_extracting,          \* SpotifyExtractor.is_extracting
    extract_pc,             \* position of the extraction thread
    playlist_id,            \* extract_playlist local: the id, or NoPlaylistId
    next_url,               \* get_playlist_tracks local: the pages of the
                            \* playlist not yet fetched, as their track counts
    tracks,                 \* get_playlist_tracks local: tracks collected
    output_file,            \* the output file: "absent" or "written"
    extract_ret,            \* what extract_playlist returned
    cancel_before_save      \* cancel_extraction was called after the thread was
                            \* launched and before the call of save_to_file

vars ==
    << music_files, directories, file_extensions, is_scanning, scan_thread,
       scan_progress_callback, pc, total_files, processed_files, dir_iter,
       directory, file_iter, caller, scan_ret, config_ops, reports, outcome, built,
       snap_total, cancel_after_start, cancel_while_alive,
       last_complete, search_view, result, scan_button, is_extracting,
       extract_pc, playlist_id, next_url, tracks, output_file, extract_ret,
       cancel_before_save >>

\* The state of SpotifyExtractor and of its extraction thread.
ExtractorVars ==
    << is_extracting, extract_pc, playlist_id, next_url, tracks, output_file,
       extract_ret, cancel_before_save >>

\* The locals of the worker threads.
WorkerLocals == << total_files, processed_files, dir_iter, directory, file_iter >>

\* History variables: what the callbacks received and what the scans did.
Ghosts ==
    << reports, outcome, built, snap_total, cancel_after_start,
       cancel_while_alive, last_complete, search_view >>

\* threading.Thread.is_alive
IsAlive(w) == pc[w] \notin {"idle", "done"}

\* Worker threads started so far.
Started == {w \in Workers : pc[w] # "idle"}

\* Scans started and configuration calls made so far.
Calls == Cardinality(Started) + config_ops

\* No search is running.
NoView == [files |-> << >>, complete |-> << >>]

\* No call has returned a result.
NoResult == [op |-> "none"]

\* extract_playlist_id found no id in the URL.
NoPlaylistId == "None"

\* extract_playlist has not returned.
NoReturn == "none"

\* SpotifyExtractor.__init__, no extraction thread started.
ExtractorInit ==
    /\ is_extracting = FALSE
    /\ extract_pc = "idle"
    /\ playlist_id = NoPlaylistId
    /\ next_url = << >>
    /\ tracks = 0
    /\ output_file = "absent"
    /\ extract_ret = NoReturn
    /\ cancel_before_save = FALSE

\* MusicDatabase.__init__, and the applications' windows as built.
Init ==
    /\ music_files = << >>
    /\ directories = << >>
    /\ file_extensions = DefaultExtensions
    /\ is_scanning = FALSE
    /\ scan_thread = NoThread
    /\ scan_progress_callback = NoCallback
    /\ pc = [w \in Workers |-> "idle"]
    /\ total_files = [w \in Workers |-> 0]
    /\ processed_files = [w \in Workers |-> 0]
    /\ dir_iter = [w \in Workers |-> 0]
    /\ directory = [w \in Workers |-> ""]
    /\ file_iter = [w \in Workers |-> 0]
    /\ caller = "idle"
    /\ scan_ret = "None"
    /\ config_ops = 0
    /\ reports = [w \in Workers |-> << >>]
    /\ outcome = [w \in Workers |-> "none"]
    /\ built = [w \in Workers |-> << >>]
    /\ snap_total = [w \in Workers |-> 0]
    /\ cancel_after_start = [w \in Workers |-> FALSE]
    /\ cancel_while_alive = [w \in Workers |-> FALSE]
    /\ last_complete = << >>
    /\ search_view = NoView
    /\ result = NoResult
    /\ scan_button = "normal"
    /\ ExtractorInit

\* ---------------------------------------------------------------- helpers

\* What mutagen.File(full_path) yields: the tag keys present and their first
\* values (no key at all when mutagen is missing or finds no tags), and where
\* reading the tags raises: "never", in mutagen.File ("file"), or in
\* audio["artist"][0] / audio["title"][0] ("artist" / "title").
NoAudio == [keys |-> {}, artist |-> << >>, title |-> << >>, raises |-> "never"]

\* The files of the model's file system carry no embedded tags.
Audio(full_path) == NoAudio

\* The extensions for which _extract_metadata consults mutagen.
TaggedExtensions ==
    { <<"m", "p", "3">>, <<"f", "l", "a", "c">>, <<"o", "g", "g">>,
      <<"a", "a", "c">>, <<"m", "4", "a">> }

\* _extract_metadata taking the tags whenever the file carries them.
ExtractMetadataOverwrites(parsed, extension, audio) ==
    IF extension \notin TaggedExtensions \/ audio.raises # "never"
    THEN parsed
    ELSE [parsed EXCEPT
             !.artist = IF "artist" \in audio.keys THEN audio.artist ELSE @,
             !.song = IF "title" \in audio.keys THEN audio.title ELSE @]

\* MusicFile._extract_metadata: artist and song are taken from the tags only
\* where the parser left them empty; an exception ends the method with what
\* was assigned before it.
ExtractMetadata(parsed, extension, audio) ==
    IF extension \notin TaggedExtensions \/ audio.raises = "file"
    THEN parsed
    ELSE LET reads_artist == parsed.artist = << >> /\ "artist" \in audio.keys
             reads_title == parsed.song = << >> /\ "title" \in audio.keys
             with_artist == [parsed EXCEPT !.artist = IF reads_artist
                                                      THEN audio.artist ELSE @]
         IN  IF reads_artist /\ audio.raises = "artist"
             THEN parsed
             ELSE IF reads_title /\ audio.raises = "title"
             THEN with_artist
             ELSE [with_artist EXCEPT !.song = IF reads_title
                                               THEN audio.title ELSE @]

\* os.path.getsize for a readable file: in the model's file system a file is
\* as long as its name.
FileSize(full_path) == Len(full_path.name)

\* MusicFile.__init__ for a readable file whose tags are `audio`.
MusicFileFrom(full_path, audio) ==
    LET filename == Basename(full_path)
        extension == FileExt(filename)
        fields == ExtractMetadata(ParseFilename(filename), extension, audio)
    IN  [full_path |-> full_path,
         filename |-> filename,
         extension |-> extension,
         size |-> FileSize(full_path),
         artist |-> fields.artist,
         song |-> fields.song,
         track_num |-> fields.track_num]

\* Names of the scanned files the records were built from.
QueryFileNames ==
    { <<"a", "_", "b", ".", "m", "p", "3">>,
      <<"a", "b", ".", "m", "p", "3">>,
      <<"B", "-", "c", ".", "m", "p", "3">> }

\* The paths of the files that are scanned or searched.
KnownPaths ==
    UNION {{PathJoin(Walk(d)[i].root, Walk(d)[i].file) : i \in 1..Len(Walk(d))} :
              d \in DirNames}
        \cup {PathJoin(MusicDir, name) : name \in QueryFileNames}

\* The record MusicFile.__init__ builds for each of these files if it can be
\* read: in a file system that does not change it depends on the path only.
FileRecords == [p \in KnownPaths |-> MusicFileFrom(p, Audio(p))]

\* MusicFile.__init__: the record built for a readable file.
MusicFile(full_path) == FileRecords[full_path]

\* ---------------------------------------------------------------- matching

\* re.sub(r'[^\w\s]', ' ', s)
Depunctuate(s) ==
    [i \in 1..Len(s) |-> IF IsWord(s[i]) \/ IsSpace(s[i]) THEN s[i] ELSE " "]

\* set(s.split()): the maximal runs of non-whitespace characters.
RECURSIVE SplitParts(_, _)
SplitParts(s, word) ==
    IF s = << >>
    THEN IF word = << >> THEN {} ELSE {word}
    ELSE IF IsSpace(Head(s))
    THEN (IF word = << >> THEN {} ELSE {word}) \cup SplitParts(Tail(s), << >>)
    ELSE SplitParts(Tail(s), Append(word, Head(s)))

\* `part in text` for strings.
Contains(text, part) ==
    \E i \in 1..(Len(text) - Len(part) + 1) :
        SubSeq(text, i, i + Len(part) - 1) = part

\* f"{self.filename.lower()} {self.artist.lower()} {self.song.lower()}"
HaystackText(file) ==
    Lower(file.filename) \o <<" ">> \o Lower(file.artist) \o <<" ">>
        \o Lower(file.song)

\* f"{first.lower()} - {second.lower()}"
Dashed(first, second) == Lower(first) \o <<" ", "-", " ">> \o Lower(second)

\* A score is the float num / den, kept in lowest terms.
RECURSIVE Gcd(_, _)
Gcd(m, n) == IF n = 0 THEN m ELSE Gcd(n, m % n)

Score(num, den) == [num |-> num \div Gcd(num, den), den |-> den \div Gcd(num, den)]

ScoreZero == Score(0, 1)

ScoreOne == Score(1, 1)

\* x >= y on scores.
ScoreGeq(x, y) == x.num * y.den >= y.num * x.den

\* max(x, y): the first of two equal values.
ScoreMax(x, y) == IF ScoreGeq(x, y) THEN x ELSE y

\* difflib.SequenceMatcher.get_matching_blocks, summed: the characters of
\* a[alo..ahi] and b[blo..bhi] in matching blocks. The longest block is taken
\* (the one starting earliest in a, then earliest in b, among the longest) and
\* the pieces to its left and to its right are matched in the same way.
RECURSIVE MatchedChars(_, _, _, _, _, _)
MatchedChars(a, b, alo, ahi, blo, bhi) ==
    LET Block(i, j, k) ==
            /\ i + k - 1 <= ahi
            /\ j + k - 1 <= bhi
            /\ \A d \in 0..(k - 1) : a[i + d] = b[j + d]
        Found(k) == \E i \in alo..ahi, j \in blo..bhi : Block(i, j, k)
        sizes == {k \in 1..(ahi - alo + 1) : Found(k)}
        size == CHOOSE k \in sizes : \A m \in sizes : m <= k
        StartsA(i) == \E j \in blo..bhi : Block(i, j, size)
        besti == CHOOSE i \in alo..ahi :
                     StartsA(i) /\ \A m \in alo..(i - 1) : ~StartsA(m)
        bestj == CHOOSE j \in blo..bhi :
                     Block(besti, j, size)
                         /\ \A m \in blo..(j - 1) : ~Block(besti, m, size)
    IN  IF alo > ahi \/ blo > bhi \/ sizes = {}
        THEN 0
        ELSE size
             + MatchedChars(a, b, alo, besti - 1, blo, bestj - 1)
             + MatchedChars(a, b, besti + size, ahi, bestj + size, bhi)

\* difflib.SequenceMatcher(None, a, b).ratio()
Ratio(a, b) ==
    IF Len(a) + Len(b) = 0
    THEN ScoreOne
    ELSE Score(2 * MatchedChars(a, b, 1, Len(a), 1, Len(b)), Len(a) + Len(b))

\* A threshold t stands for the float t / ThresholdScale.
ThresholdScale == 10

\* The threshold up to which match_query skips the fuzzy scores: 0.5.
SimpleMatchThreshold == 5

\* score >= threshold
Reaches(score, threshold) == score.num * ThresholdScale >= threshold * score.den

\* match_query with the gate tested on the haystack's token set.
MatchQueryTokenGate(file, query, threshold) ==
    LET lowered == Lower(query)
        query_parts == SplitParts(Depunctuate(lowered), << >>)
        text == HaystackText(file)
        text_parts == SplitParts(Depunctuate(text), << >>)
    IN  IF query_parts = {} \/ ~(query_parts \subseteq text_parts)
        THEN ScoreZero
        ELSE IF threshold <= SimpleMatchThreshold
        THEN ScoreOne
        ELSE ScoreMax(ScoreMax(Ratio(lowered, text),
                               Ratio(lowered, Dashed(file.artist, file.song))),
                      Ratio(lowered, Dashed(file.song, file.artist)))

\* MusicFile.match_query
MatchQuery(file, query, threshold) ==
    LET lowered == Lower(query)
        query_parts == SplitParts(Depunctuate(lowered), << >>)
        text == HaystackText(file)
    IN  IF query_parts = {} \/ ~(\A part \in query_parts : Contains(text, part))
        THEN ScoreZero
        ELSE IF threshold <= SimpleMatchThreshold
        THEN ScoreOne
        ELSE ScoreMax(ScoreMax(Ratio(lowered, text),
                               Ratio(lowered, Dashed(file.artist, file.song))),
                      Ratio(lowered, Dashed(file.song, file.artist)))

\* The (music_file, score) pairs of `files` that reach the threshold, in the
\* order of `files`: the loop of search and the inner loop of match_playlist.
RECURSIVE Matches(_, _, _)
Matches(files, query, threshold) ==
    IF files = << >>
    THEN << >>
    ELSE LET score == MatchQuery(Head(files), query, threshold)
             rest == Matches(Tail(files), query, threshold)
         IN  IF Reaches(score, threshold)
             THEN << [file |-> Head(files), score |-> score] >> \o rest
             ELSE rest

\* sorted with pairs of equal score in reverse order of occurrence.
RECURSIVE SortedTiesReversed(_)
SortedTiesReversed(results) ==
    IF results = << >>
    THEN << >>
    ELSE LET x == results[Len(results)]
             front == SortedTiesReversed(SubSeq(results, 1, Len(results) - 1))
             keep == Cardinality({i \in 1..Len(front) :
                                     front[i].score.num * x.score.den
                                         > x.score.num * front[i].score.den})
         IN  SubSeq(front, 1, keep) \o << x >>
                 \o SubSeq(front, keep + 1, Len(front))

\* sorted(results, key=lambda x: x[1], reverse=True): a stable sort, so each
\* pair goes behind the pairs before it whose score is not smaller.
RECURSIVE SortedByScore(_)
SortedByScore(results) ==
    IF results = << >>
    THEN << >>
    ELSE LET x == results[Len(results)]
             front == SortedByScore(SubSeq(results, 1, Len(results) - 1))
             keep == Cardinality({i \in 1..Len(front) :
                                     ScoreGeq(front[i].score, x.score)})
         IN  SubSeq(front, 1, keep) \o << x >>
                 \o SubSeq(front, keep + 1, Len(front))

\* MusicDatabase.search
SearchResults(files, query, threshold) ==
    IF Strip(query) = << >>
    THEN << >>
    ELSE SortedByScore(Matches(files, query, threshold))

\* match_playlist leaving out the entries that match nothing.
RECURSIVE MatchPlaylistDropsEmpty(_, _, _)
MatchPlaylistDropsEmpty(files, playlist_entries, threshold) ==
    IF playlist_entries = << >>
    THEN << >>
    ELSE LET matches == SortedByScore(Matches(files, Head(playlist_entries),
                                              threshold))
             rest == MatchPlaylistDropsEmpty(files, Tail(playlist_entries),
                                             threshold)
         IN  IF matches = << >>
             THEN rest
             ELSE << [entry |-> Head(playlist_entries), matches |-> matches] >>
                  \o rest

\* MusicDatabase.match_playlist: one (entry, sorted matches) pair is appended
\* for each entry, in the order of the entries.
RECURSIVE MatchPlaylist(_, _, _)
MatchPlaylist(files, playlist_entries, threshold) ==
    IF playlist_entries = << >>
    THEN << >>
    ELSE << [entry |-> Head(playlist_entries),
             matches |-> SortedByScore(Matches(files, Head(playlist_entries),
                                               threshold))] >>
         \o MatchPlaylist(files, Tail(playlist_entries), threshold)

\* `ext in self.file_extensions` for the file a walk yields.
Qualifies(file, extensions) == FileExt(file) \in extensions

\* One progress callback as the sink receives it.
Progress(msg, p, t, n) ==
    [message |-> msg, processed |-> p, total |-> t, found |-> n]

\* `if self.scan_progress_callback: self.scan_progress_callback(p, t, msg)`
Deliver(w, msg, p, t, n) ==
    reports' = IF scan_progress_callback # NoCallback
               THEN [reports EXCEPT ![w] = Append(@, Progress(msg, p, t, n))]
               ELSE reports

\* Position after the inner `for file in files` loops move past one file.
AfterFile(w, more, next) ==
    IF file_iter[w] + 1 < Len(Walk(directory[w])) THEN more ELSE next

\* `for directory in self.directories`: the list iterator reads the live list.
NextDirectory(w, inside, after) ==
    IF dir_iter[w] < Len(directories)
    THEN LET d == directories[dir_iter[w] + 1]
         IN  /\ directory' = [directory EXCEPT ![w] = d]
             /\ dir_iter' = [dir_iter EXCEPT ![w] = @ + 1]
             /\ file_iter' = [file_iter EXCEPT ![w] = 0]
             /\ pc' = [pc EXCEPT ![w] = IF Len(Walk(d)) = 0 THEN pc[w] ELSE inside]
    ELSE /\ pc' = [pc EXCEPT ![w] = after]
         /\ UNCHANGED << directory, dir_iter, file_iter >>

\* list.remove: drops the first occurrence.
RemoveFirst(seq, x) ==
    LET i == CHOOSE k \in 1..Len(seq) :
                 seq[k] = x /\ \A j \in 1..(k - 1) : seq[j] # x
    IN  SubSeq(seq, 1, i - 1) \o SubSeq(seq, i + 1, Len(seq))

\* Files an uninterrupted pass over `dirs` with filter `extensions` visits.
RECURSIVE CountQualifying(_, _)
CountQualifying(dirs, extensions) ==
    IF dirs = << >>
    THEN 0
    ELSE Cardinality({i \in 1..Len(Walk(Head(dirs))) :
                         Qualifies(Walk(Head(dirs))[i].file, extensions)})
         + CountQualifying(Tail(dirs), extensions)

InSeq(x, seq) == \E i \in 1..Len(seq) : seq[i] = x

\* MusicPlaylistManagerApp.update_scan_progress, which the worker calls when
\* it delivers a report: a report with current == total, an error report or
\* a cancellation report sets the Scan button back to normal.
ReEnables(report) ==
    \/ report.processed = report.total
    \/ report.message = MsgError
    \/ report.message = MsgCancelled

UpdateScanProgress(w) ==
    scan_button' =
        IF /\ Len(reports'[w]) > Len(reports[w])
           /\ ReEnables(reports'[w][Len(reports'[w])])
        THEN "normal"
        ELSE scan_button

\* ------------------------------------------------------ the calling thread

\* MusicDatabase.add_directory
AddDirectory(d) ==
    /\ caller = "idle"
    /\ config_ops < MaxConfigOps
    /\ Calls < MaxCalls
    /\ config_ops' = config_ops + 1
    /\ IF IsDir(d) /\ ~InSeq(d, directories)
       THEN directories' = Append(directories, d)
       ELSE directories' = directories
    /\ UNCHANGED << music_files, file_extensions, is_scanning, scan_thread,
                    scan_progress_callback, pc, WorkerLocals, caller, scan_ret,
                    Ghosts >>
    /\ UNCHANGED << result, scan_button, ExtractorVars >>

\* MusicDatabase.remove_directory
RemoveDirectory(d) ==
    /\ caller = "idle"
    /\ config_ops < MaxConfigOps
    /\ Calls < MaxCalls
    /\ config_ops' = config_ops + 1
    /\ IF InSeq(d, directories)
       THEN directories' = RemoveFirst(directories, d)
       ELSE directories' = directories
    /\ UNCHANGED << music_files, file_extensions, is_scanning, scan_thread,
                    scan_progress_callback, pc, WorkerLocals, caller, scan_ret,
                    Ghosts >>
    /\ UNCHANGED << result, scan_button, ExtractorVars >>

\* MusicDatabase.set_extensions
SetExtensions(extensions) ==
    /\ caller = "idle"
    /\ config_ops < MaxConfigOps
    /\ Calls < MaxCalls
    /\ config_ops' = config_ops + 1
    /\ file_extensions' = extensions
    /\ UNCHANGED << music_files, directories, is_scanning, scan_thread,
                    scan_progress_callback, pc, WorkerLocals, caller, scan_ret,
                    Ghosts >>
    /\ UNCHANGED << result, scan_button, ExtractorVars >>

\* The history kept of worker v once scan_directories starts worker w: that
\* of the scans that ended before is dropped.
Kept(v, w, history, empty) ==
    IF v = w \/ outcome[v] # "none" THEN empty ELSE history[v]

\* scan_directories without its `if self.is_scanning: return False`.
ScanDirectoriesNoBusyCheck(cb) ==
    /\ caller = "idle"
    /\ Cardinality(Started) < MaxScans
    /\ Calls < MaxCalls
    /\ LET w == Cardinality(Started) + 1
       IN  /\ scan_progress_callback' = cb
           /\ is_scanning' = TRUE
           /\ music_files' = << >>
           /\ scan_thread' = w
           /\ pc' = [pc EXCEPT ![w] = "count_dir"]
           /\ snap_total' = [v \in Workers |->
                  IF v = w
                  THEN CountQualifying(directories, file_extensions)
                  ELSE Kept(v, w, snap_total, 0)]
           /\ reports' = [v \in Workers |-> Kept(v, w, reports, << >>)]
           /\ built' = [v \in Workers |-> Kept(v, w, built, << >>)]
           /\ outcome' = [v \in Workers |-> Kept(v, w, outcome, "none")]
           /\ cancel_after_start' =
                  [v \in Workers |-> Kept(v, w, cancel_after_start, FALSE)]
           /\ cancel_while_alive' =
                  [v \in Workers |-> Kept(v, w, cancel_while_alive, FALSE)]
    /\ scan_ret' = "True"
    /\ UNCHANGED << directories, file_extensions, WorkerLocals, caller,
                    config_ops, last_complete, search_view >>
    /\ UNCHANGED << result, scan_button, ExtractorVars >>

\* scan_directories without its `self.is_scanning = True`.
ScanDirectoriesKeepsFlag(cb) ==
    /\ caller = "idle"
    /\ IF is_scanning
       THEN /\ scan_ret' = "False"
            /\ UNCHANGED << music_files, directories, file_extensions,
                            is_scanning, scan_thread, scan_progress_callback,
                            pc, WorkerLocals, caller, config_ops, Ghosts >>
       ELSE /\ Cardinality(Started) < MaxScans
            /\ Calls < MaxCalls
            /\ LET w == Cardinality(Started) + 1
               IN  /\ scan_progress_callback' = cb
                   /\ is_scanning' = is_scanning
                   /\ music_files' = << >>
                   /\ scan_thread' = w
                   /\ pc' = [pc EXCEPT ![w] = "count_dir"]
                   /\ snap_total' = [v \in Workers |->
                          IF v = w
                          THEN CountQualifying(directories, file_extensions)
                          ELSE Kept(v, w, snap_total, 0)]
                   /\ reports' = [v \in Workers |-> Kept(v, w, reports, << >>)]
                   /\ built' = [v \in Workers |-> Kept(v, w, built, << >>)]
                   /\ outcome' = [v \in Workers |-> Kept(v, w, outcome, "none")]
                   /\ cancel_after_start' =
                          [v \in Workers |-> Kept(v, w, cancel_after_start, FALSE)]
                   /\ cancel_while_alive' =
                          [v \in Workers |-> Kept(v, w, cancel_while_alive, FALSE)]
            /\ scan_ret' = "True"
            /\ UNCHANGED << directories, file_extensions, WorkerLocals, caller,
                            config_ops, last_complete, search_view >>
    /\ UNCHANGED << result, scan_button, ExtractorVars >>

\* scan_directories without its `self.music_files = []`.
ScanDirectoriesKeepsRecords(cb) ==
    /\ caller = "idle"
    /\ IF is_scanning
       THEN /\ scan_ret' = "False"
            /\ UNCHANGED << music_files, directories, file_extensions,
                            is_scanning, scan_thread, scan_progress_callback,
                            pc, WorkerLocals, caller, config_ops, Ghosts >>
       ELSE /\ Cardinality(Started) < MaxScans
            /\ Calls < MaxCalls
            /\ LET w == Cardinality(Started) + 1
               IN  /\ scan_progress_callback' = cb
                   /\ is_scanning' = TRUE
                   /\ music_files' = music_files
                   /\ scan_thread' = w
                   /\ pc' = [pc EXCEPT ![w] = "count_dir"]
                   /\ snap_total' = [v \in Workers |->
                          IF v = w
                          THEN CountQualifying(directories, file_extensions)
                          ELSE Kept(v, w, snap_total, 0)]
                   /\ reports' = [v \in Workers |-> Kept(v, w, reports, << >>)]
                   /\ built' = [v \in Workers |-> Kept(v, w, built, << >>)]
                   /\ outcome' = [v \in Workers |-> Kept(v, w, outcome, "none")]
                   /\ cancel_after_start' =
                          [v \in Workers |-> Kept(v, w, cancel_after_start, FALSE)]
                   /\ cancel_while_alive' =
                          [v \in Workers |-> Kept(v, w, cancel_while_alive, FALSE)]
            /\ scan_ret' = "True"
            /\ UNCHANGED << directories, file_extensions, WorkerLocals, caller,
                            config_ops, last_complete, search_view >>
    /\ UNCHANGED << result, scan_button, ExtractorVars >>

\* MusicDatabase.scan_directories, whoever calls it.
MusicDatabaseScanDirectories(cb) ==
    /\ caller = "idle"
    /\ IF is_scanning
       THEN /\ scan_ret' = "False"
            /\ UNCHANGED << music_files, directories, file_extensions,
                            is_scanning, scan_thread, scan_progress_callback,
                            pc, WorkerLocals, caller, config_ops, Ghosts >>
       ELSE /\ Cardinality(Started) < MaxScans
            /\ Calls < MaxCalls
            /\ LET w == Cardinality(Started) + 1
               IN  /\ scan_progress_callback' = cb
                   /\ is_scanning' = TRUE
                   /\ music_files' = << >>
                   /\ scan_thread' = w
                   /\ pc' = [pc EXCEPT ![w] = "count_dir"]
                   /\ snap_total' = [v \in Workers |->
                          IF v = w
                          THEN CountQualifying(directories, file_extensions)
                          ELSE Kept(v, w, snap_total, 0)]
                   /\ reports' = [v \in Workers |-> Kept(v, w, reports, << >>)]
                   /\ built' = [v \in Workers |-> Kept(v, w, built, << >>)]
                   /\ outcome' = [v \in Workers |-> Kept(v, w, outcome, "none")]
                   /\ cancel_after_start' =
                          [v \in Workers |-> Kept(v, w, cancel_after_start, FALSE)]
                   /\ cancel_while_alive' =
                          [v \in Workers |-> Kept(v, w, cancel_while_alive, FALSE)]
            /\ scan_ret' = "True"
            /\ UNCHANGED << directories, file_extensions, WorkerLocals, caller,
                            config_ops, last_complete, search_view >>
    /\ UNCHANGED << result, ExtractorVars >>

\* MusicDatabase.scan_directories called by a caller other than the window.
ScanDirectories(cb) ==
    /\ MusicDatabaseScanDirectories(cb)
    /\ UNCHANGED scan_button

\* MusicDatabase.cancel_scan, up to the join
CancelScan ==
    /\ caller = "idle"
    /\ is_scanning' = FALSE
    /\ caller' = IF scan_thread # NoThread /\ IsAlive(scan_thread)
                 THEN "joining" ELSE "idle"
    /\ cancel_after_start' =
           [w \in Workers |-> cancel_after_start[w] \/ w \in Started]
    /\ cancel_while_alive' =
           [w \in Workers |-> cancel_while_alive[w] \/ IsAlive(w)]
    /\ UNCHANGED << music_files, directories, file_extensions, scan_thread,
                    scan_progress_callback, pc, WorkerLocals, scan_ret, config_ops,
                    reports, outcome, built, snap_total,
                    last_complete, search_view >>
    /\ UNCHANGED << result, scan_button, ExtractorVars >>

\* self.scan_thread.join(1.0) returns: the thread ended, or the second passed.
JoinReturn ==
    /\ caller = "joining"
    /\ caller' = "idle"
    /\ UNCHANGED << music_files, directories, file_extensions, is_scanning,
                    scan_thread, scan_progress_callback, pc, WorkerLocals,
                    scan_ret, config_ops, Ghosts >>
    /\ UNCHANGED << result, scan_button, ExtractorVars >>

\* MusicDatabase.search / match_playlist: the loop starts to iterate
\* self.music_files on the calling thread.
Search ==
    /\ caller = "idle"
    /\ caller' = "searching"
    /\ search_view' = [files |-> music_files, complete |-> last_complete]
    /\ UNCHANGED << music_files, directories, file_extensions, is_scanning,
                    scan_thread, scan_progress_callback, pc, WorkerLocals,
                    scan_ret, config_ops, reports, outcome, built, snap_total,
                    cancel_after_start, cancel_while_alive,
                    last_complete >>
    /\ UNCHANGED << result, scan_button, ExtractorVars >>

\* MusicDatabase.search / match_playlist return their result.
SearchReturn ==
    /\ caller = "searching"
    /\ caller' = "idle"
    /\ search_view' = NoView
    /\ UNCHANGED << music_files, directories, file_extensions, is_scanning,
                    scan_thread, scan_progress_callback, pc, WorkerLocals,
                    scan_ret, config_ops, reports, outcome, built, snap_total,
                    cancel_after_start, cancel_while_alive,
                    last_complete >>
    /\ UNCHANGED << result, scan_button, ExtractorVars >>

\* ------------------------------------------------------- the worker thread

\* _scan_worker, pass 1: the outer loop takes the next directory.
CountNextDir(w) ==
    /\ pc[w] = "count_dir"
    /\ NextDirectory(w, "count_file", "report_start")
    /\ UNCHANGED << music_files, directories, file_extensions, is_scanning,
                    scan_thread, scan_progress_callback, total_files,
                    processed_files, caller, scan_ret, config_ops, Ghosts >>
    /\ UNCHANGED << result, ExtractorVars >>
    /\ UpdateScanProgress(w)

\* _scan_worker, pass 1: one file of the walk is tested and counted.
CountFile(w) ==
    /\ pc[w] = "count_file"
    /\ LET f == Walk(directory[w])[file_iter[w] + 1]
       IN  total_files' = [total_files EXCEPT ![w] =
               IF Qualifies(f.file, file_extensions) THEN @ + 1 ELSE @]
    /\ file_iter' = [file_iter EXCEPT ![w] = @ + 1]
    /\ pc' = [pc EXCEPT ![w] = AfterFile(w, "count_file", "count_dir")]
    /\ UNCHANGED << music_files, directories, file_extensions, is_scanning,
                    scan_thread, scan_progress_callback, processed_files,
                    dir_iter, directory, caller, scan_ret, config_ops, Ghosts >>
    /\ UNCHANGED << result, ExtractorVars >>
    /\ UpdateScanProgress(w)

\* _scan_worker: the initial progress report; pass 2 starts a new iteration.
ReportStart(w) ==
    /\ pc[w] = "report_start"
    /\ Deliver(w, MsgStart, 0, total_files[w], NoCount)
    /\ dir_iter' = [dir_iter EXCEPT ![w] = 0]
    /\ pc' = [pc EXCEPT ![w] = "scan_dir"]
    /\ UNCHANGED << music_files, directories, file_extensions, is_scanning,
                    scan_thread, scan_progress_callback, total_files,
                    processed_files, directory, file_iter, caller, scan_ret,
                    config_ops, outcome, built, snap_total,
                    cancel_after_start, cancel_while_alive,
                    last_complete, search_view >>
    /\ UNCHANGED << result, ExtractorVars >>
    /\ UpdateScanProgress(w)

\* _scan_worker, pass 2: the outer loop takes the next directory.
ScanNextDir(w) ==
    /\ pc[w] = "scan_dir"
    /\ NextDirectory(w, "scan_file", "report_complete")
    /\ UNCHANGED << music_files, directories, file_extensions, is_scanning,
                    scan_thread, scan_progress_callback, total_files,
                    processed_files, caller, scan_ret, config_ops, Ghosts >>
    /\ UNCHANGED << result, ExtractorVars >>
    /\ UpdateScanProgress(w)

\* The cancellation check without its `return`: the cancellation is reported
\* and the loop goes on with the file.
ScanFileNoReturn(w) ==
    /\ pc[w] = "scan_file"
    /\ IF ~is_scanning
       THEN /\ Deliver(w, MsgCancelled, processed_files[w], total_files[w], NoCount)
            /\ outcome' = [outcome EXCEPT ![w] = "cancelled"]
       ELSE UNCHANGED << reports, outcome >>
    /\ LET f == Walk(directory[w])[file_iter[w] + 1]
       IN  IF Qualifies(f.file, file_extensions)
           THEN /\ pc' = [pc EXCEPT ![w] = "build"]
                /\ UNCHANGED file_iter
           ELSE /\ pc' = [pc EXCEPT ![w] = AfterFile(w, "scan_file", "scan_dir")]
                /\ file_iter' = [file_iter EXCEPT ![w] = @ + 1]
    /\ UNCHANGED << music_files, directories, file_extensions, is_scanning,
                    scan_thread, scan_progress_callback, total_files,
                    processed_files, dir_iter, directory, caller, scan_ret,
                    config_ops, built, snap_total,
                    cancel_after_start, cancel_while_alive, last_complete,
                    search_view >>
    /\ UNCHANGED << result, ExtractorVars >>
    /\ UpdateScanProgress(w)

\* _scan_worker, pass 2: the cancellation check and the extension test.
ScanFile(w) ==
    /\ pc[w] = "scan_file"
    /\ IF ~is_scanning
       THEN /\ Deliver(w, MsgCancelled, processed_files[w], total_files[w], NoCount)
            /\ outcome' = [outcome EXCEPT ![w] = "cancelled"]
            /\ pc' = [pc EXCEPT ![w] = "finally"]
            /\ UNCHANGED file_iter
       ELSE /\ LET f == Walk(directory[w])[file_iter[w] + 1]
               IN  IF Qualifies(f.file, file_extensions)
                   THEN /\ pc' = [pc EXCEPT ![w] = "build"]
                        /\ UNCHANGED file_iter
                   ELSE /\ pc' = [pc EXCEPT ![w] =
                                     AfterFile(w, "scan_file", "scan_dir")]
                        /\ file_iter' = [file_iter EXCEPT ![w] = @ + 1]
            /\ UNCHANGED << reports, outcome >>
    /\ UNCHANGED << music_files, directories, file_extensions, is_scanning,
                    scan_thread, scan_progress_callback, total_files,
                    processed_files, dir_iter, directory, caller, scan_ret,
                    config_ops, built, snap_total,
                    cancel_after_start, cancel_while_alive, last_complete,
                    search_view >>
    /\ UNCHANGED << result, ExtractorVars >>
    /\ UpdateScanProgress(w)

\* Pass 2 without the per-file try: the failure to build MusicFile reaches
\* the except clause of the scan.
BuildFileNoTry(w) ==
    /\ pc[w] = "build"
    /\ LET f == Walk(directory[w])[file_iter[w] + 1]
           full_path == PathJoin(f.root, f.file)
       IN  IF full_path \notin Unreadable
           THEN /\ music_files' = Append(music_files, MusicFile(full_path))
                /\ built' = [built EXCEPT ![w] = Append(@, MusicFile(full_path))]
                /\ processed_files' = [processed_files EXCEPT ![w] = @ + 1]
                /\ IF total_files[w] > 0
                   THEN Deliver(w, MsgScanned, processed_files[w] + 1,
                                total_files[w], NoCount)
                   ELSE UNCHANGED reports
                /\ file_iter' = [file_iter EXCEPT ![w] = @ + 1]
                /\ pc' = [pc EXCEPT ![w] = AfterFile(w, "scan_file", "scan_dir")]
                /\ UNCHANGED outcome
           ELSE /\ Deliver(w, MsgError, 0, 0, NoCount)
                /\ outcome' = [outcome EXCEPT ![w] = "failed"]
                /\ pc' = [pc EXCEPT ![w] = "finally"]
                /\ UNCHANGED << music_files, built, processed_files, file_iter >>
    /\ UNCHANGED << directories, file_extensions, is_scanning, scan_thread,
                    scan_progress_callback, total_files, dir_iter, directory,
                    caller, scan_ret, config_ops, snap_total,
                    cancel_after_start, cancel_while_alive,
                    last_complete, search_view >>
    /\ UNCHANGED << result, ExtractorVars >>
    /\ UpdateScanProgress(w)

\* _scan_worker, pass 2: MusicFile is built and appended (or the failure is
\* logged), the file is counted and the per-file progress is reported.
BuildFile(w) ==
    /\ pc[w] = "build"
    /\ LET f == Walk(directory[w])[file_iter[w] + 1]
           full_path == PathJoin(f.root, f.file)
       IN  IF full_path \notin Unreadable
           THEN /\ music_files' = Append(music_files, MusicFile(full_path))
                /\ built' = [built EXCEPT ![w] = Append(@, MusicFile(full_path))]
           ELSE UNCHANGED << music_files, built >>
    /\ processed_files' = [processed_files EXCEPT ![w] = @ + 1]
    /\ IF total_files[w] > 0
       THEN Deliver(w, MsgScanned, processed_files[w] + 1, total_files[w], NoCount)
       ELSE UNCHANGED reports
    /\ file_iter' = [file_iter EXCEPT ![w] = @ + 1]
    /\ pc' = [pc EXCEPT ![w] = AfterFile(w, "scan_file", "scan_dir")]
    /\ UNCHANGED << directories, file_extensions, is_scanning, scan_thread,
                    scan_progress_callback, total_files, dir_iter, directory,
                    caller, scan_ret, config_ops, outcome, snap_total,
                    cancel_after_start, cancel_while_alive,
                    last_complete, search_view >>
    /\ UNCHANGED << result, ExtractorVars >>
    /\ UpdateScanProgress(w)

\* _scan_worker: the completion report after both loops ran to the end.
ReportComplete(w) ==
    /\ pc[w] = "report_complete"
    /\ Deliver(w, MsgComplete, total_files[w], total_files[w], Len(music_files))
    /\ outcome' = [outcome EXCEPT ![w] = "completed"]
    /\ last_complete' = music_files
    /\ pc' = [pc EXCEPT ![w] = "finally"]
    /\ UNCHANGED << music_files, directories, file_extensions, is_scanning,
                    scan_thread, scan_progress_callback, WorkerLocals, caller,
                    scan_ret, config_ops, built, snap_total,
                    cancel_after_start, cancel_while_alive, search_view >>
    /\ UNCHANGED << result, ExtractorVars >>
    /\ UpdateScanProgress(w)

\* An except clause that logs the error and reports nothing.
ScanFaultSilent(w) ==
    /\ pc[w] \in {"count_dir", "count_file", "scan_dir", "scan_file"}
    /\ outcome' = [outcome EXCEPT ![w] = "failed"]
    /\ pc' = [pc EXCEPT ![w] = "finally"]
    /\ UNCHANGED << music_files, directories, file_extensions, is_scanning,
                    scan_thread, scan_progress_callback, WorkerLocals, caller,
                    scan_ret, config_ops, reports, built, snap_total,
                    cancel_after_start, cancel_while_alive, last_complete,
                    search_view >>
    /\ UNCHANGED << result, ExtractorVars >>
    /\ UpdateScanProgress(w)

\* _scan_worker: an exception outside the per-file try, while the directories
\* are enumerated; the except clause reports it.
ScanFault(w) ==
    /\ pc[w] \in {"count_dir", "count_file", "scan_dir", "scan_file"}
    /\ Deliver(w, MsgError, 0, 0, NoCount)
    /\ outcome' = [outcome EXCEPT ![w] = "failed"]
    /\ pc' = [pc EXCEPT ![w] = "finally"]
    /\ UNCHANGED << music_files, directories, file_extensions, is_scanning,
                    scan_thread, scan_progress_callback, WorkerLocals, caller,
                    scan_ret, config_ops, built, snap_total,
                    cancel_after_start, cancel_while_alive, last_complete,
                    search_view >>
    /\ UNCHANGED << result, ExtractorVars >>
    /\ UpdateScanProgress(w)

\* A worker that ends without `self.is_scanning = False`.
FinallyKeepsScanning(w) ==
    /\ pc[w] = "finally"
    /\ pc' = [pc EXCEPT ![w] = "done"]
    /\ total_files' = [total_files EXCEPT ![w] = 0]
    /\ processed_files' = [processed_files EXCEPT ![w] = 0]
    /\ dir_iter' = [dir_iter EXCEPT ![w] = 0]
    /\ directory' = [directory EXCEPT ![w] = ""]
    /\ file_iter' = [file_iter EXCEPT ![w] = 0]
    /\ UNCHANGED << music_files, directories, file_extensions, is_scanning,
                    scan_thread, scan_progress_callback, caller, scan_ret,
                    config_ops, Ghosts >>
    /\ UNCHANGED << result, ExtractorVars >>
    /\ UpdateScanProgress(w)

\* _scan_worker: the finally clause; the thread ends and its locals with it.
Finally(w) ==
    /\ pc[w] = "finally"
    /\ is_scanning' = FALSE
    /\ pc' = [pc EXCEPT ![w] = "done"]
    /\ total_files' = [total_files EXCEPT ![w] = 0]
    /\ processed_files' = [processed_files EXCEPT ![w] = 0]
    /\ dir_iter' = [dir_iter EXCEPT ![w] = 0]
    /\ directory' = [directory EXCEPT ![w] = ""]
    /\ file_iter' = [file_iter EXCEPT ![w] = 0]
    /\ UNCHANGED << music_files, directories, file_extensions, scan_thread,
                    scan_progress_callback, caller, scan_ret, config_ops,
                    Ghosts >>
    /\ UNCHANGED << result, ExtractorVars >>
    /\ UpdateScanProgress(w)

\* One step of the thread running _scan_worker.
ScanWorker(w) ==
    \/ CountNextDir(w)
    \/ CountFile(w)
    \/ ReportStart(w)
    \/ ScanNextDir(w)
    \/ ScanFile(w)
    \/ BuildFile(w)
    \/ ReportComplete(w)
    \/ ScanFault(w)
    \/ Finally(w)

Next ==
    \/ \E d \in DirNames : AddDirectory(d)
    \/ \E d \in DirNames : RemoveDirectory(d)
    \/ \E e \in ExtensionChoices : SetExtensions(e)
    \/ \E cb \in Callbacks : ScanDirectories(cb)
    \/ CancelScan
    \/ JoinReturn
    \/ Search
    \/ SearchReturn
    \/ \E w \in Workers : ScanWorker(w)

Spec == Init /\ [][Next]_vars

\* The steps of behaviours with at most MaxShortCalls scan and configuration
\* calls.
ShortNext ==
    \/ \E d \in DirNames : AddDirectory(d) /\ Calls < MaxShortCalls
    \/ \E d \in DirNames : RemoveDirectory(d) /\ Calls < MaxShortCalls
    \/ \E e \in ExtensionChoices : SetExtensions(e) /\ Calls < MaxShortCalls
    \/ \E cb \in Callbacks : ScanDirectories(cb) /\ Calls' <= MaxShortCalls
    \/ CancelScan
    \/ JoinReturn
    \/ Search
    \/ SearchReturn
    \/ \E w \in Workers : ScanWorker(w)

ShortSpec == Init /\ [][ShortNext]_vars

\* The worker threads are scheduled fairly: a thread that can take a step of
\* _scan_worker eventually takes it.
FairSpec == ShortSpec /\ \A w \in Workers : WF_vars(ScanWorker(w))

\* ------------------------------------------- searching a fixed record set

\* Sequences over S of length at most n.
SeqsUpTo(S, n) == UNION {[1..k -> S] : k \in 0..n}

\* Number of records in the record set that is searched.
MaxRecords == 2

\* Number of entries of the playlist passed to match_playlist.
MaxEntries == 2

\* Queries and playlist entries: empty, blank, one or two tokens, a token in
\* upper case, a token no record holds.
Queries ==
    { << >>, <<" ">>, <<"a">>, <<"B">>, <<"a", " ", "b">>, <<"z">> }

\* Thresholds 0.0, 0.5, 0.6 and 1.0.
Thresholds == {0, SimpleMatchThreshold, 6, ThresholdScale}

\* The record sets a completed scan may have left in music_files.
RecordLists ==
    SeqsUpTo({MusicFile(PathJoin(MusicDir, name)) : name \in QueryFileNames},
             MaxRecords)

\* The fields of the database and of its threads, and the applications'
\* state: all variables but result.
DatabaseVars ==
    << music_files, directories, file_extensions, is_scanning, scan_thread,
       scan_progress_callback, pc, WorkerLocals, caller, scan_ret, config_ops,
       Ghosts, scan_button, ExtractorVars >>

\* A database at rest whose music_files holds one of the record sets.
QueryInit ==
    /\ music_files \in RecordLists
    /\ directories = << MusicDir >>
    /\ file_extensions = DefaultExtensions
    /\ is_scanning = FALSE
    /\ scan_thread = NoThread
    /\ scan_progress_callback = NoCallback
    /\ pc = [w \in Workers |-> "idle"]
    /\ total_files = [w \in Workers |-> 0]
    /\ processed_files = [w \in Workers |-> 0]
    /\ dir_iter = [w \in Workers |-> 0]
    /\ directory = [w \in Workers |-> ""]
    /\ file_iter = [w \in Workers |-> 0]
    /\ caller = "idle"
    /\ scan_ret = "None"
    /\ config_ops = 0
    /\ reports = [w \in Workers |-> << >>]
    /\ outcome = [w \in Workers |-> "none"]
    /\ built = [w \in Workers |-> << >>]
    /\ snap_total = [w \in Workers |-> 0]
    /\ cancel_after_start = [w \in Workers |-> FALSE]
    /\ cancel_while_alive = [w \in Workers |-> FALSE]
    /\ last_complete = music_files
    /\ search_view = NoView
    /\ result = NoResult
    /\ scan_button = "normal"
    /\ ExtractorInit

\* MusicFile.match_query called on the i-th record.
MatchQueryCall(i, query, threshold) ==
    /\ i \in 1..Len(music_files)
    /\ result = NoResult
    /\ result' = [op |-> "match_query", file |-> music_files[i],
                  query |-> query, threshold |-> threshold,
                  value |-> MatchQuery(music_files[i], query, threshold)]
    /\ UNCHANGED DatabaseVars

\* MusicDatabase.search called by the application.
SearchCall(query, threshold) ==
    /\ result = NoResult
    /\ result' = [op |-> "search", query |-> query, threshold |-> threshold,
                  value |-> SearchResults(music_files, query, threshold)]
    /\ UNCHANGED DatabaseVars

\* MusicDatabase.match_playlist called by the application.
MatchPlaylistCall(playlist_entries, threshold) ==
    /\ result = NoResult
    /\ result' = [op |-> "match_playlist", entries |-> playlist_entries,
                  threshold |-> threshold,
                  value |-> MatchPlaylist(music_files, playlist_entries,
                                          threshold)]
    /\ UNCHANGED DatabaseVars

QueryNext ==
    \/ \E i \in 1..MaxRecords, q \in Queries, t \in Thresholds :
           MatchQueryCall(i, q, t)
    \/ \E q \in Queries, t \in Thresholds : SearchCall(q, t)
    \/ \E es \in SeqsUpTo(Queries, MaxEntries), t \in Thresholds :
           MatchPlaylistCall(es, t)

QuerySpec == QueryInit /\ [][QueryNext]_vars

\* --------------------------------------------------- building one MusicFile

\* Length of the stem of the file names MusicFile is built from.
MaxStemLen == 5

\* Characters of the stems: a letter, a digit and the three separators.
StemChars == {"a", "1", " ", "-", "_"}

\* File names: a non-empty stem and the extension ".mp3".
FileNames ==
    {stem \o <<".", "m", "p", "3">> :
        stem \in SeqsUpTo(StemChars, MaxStemLen) \ {<< >>}}

\* Where reading the tags of the file may raise.
RaiseChoices == {"never", "file", "artist", "title"}

\* What mutagen yields for the file: no tags, or an artist and a title, read
\* without or with an exception.
AudioChoices ==
    {NoAudio} \cup
    {[keys |-> {"artist", "title"}, artist |-> <<"t">>, title |-> <<"u">>,
      raises |-> r] : r \in RaiseChoices}

\* MusicFile(full_path) for a readable file of that name with those tags.
Construct(filename, audio) ==
    /\ result = NoResult
    /\ result' = [op |-> "MusicFile", filename |-> filename, audio |-> audio,
                  value |-> MusicFileFrom(PathJoin(MusicDir, filename), audio)]
    /\ UNCHANGED DatabaseVars

ParseNext ==
    /\ result = NoResult
    /\ \E name \in FileNames, audio \in AudioChoices : Construct(name, audio)

ParseSpec == Init /\ [][ParseNext]_vars

\* ------------------------------------------ configuring the database alone

\* Number of add_directory / remove_directory / set_extensions calls made on
\* a database that is not scanning.
MaxConfigCalls == 3

\* Arguments of add_directory and remove_directory: the directories of the
\* file system and a path that is no directory.
DirectoryArguments == DirNames \cup {MissingDir}

\* Arguments of set_extensions: the extension as the files carry it, in
\* upper case, and with a leading dot.
ExtensionArguments ==
    { { <<"m", "p", "3">> }, { <<"M", "P", "3">> }, { <<".", "m", "p", "3">> } }

\* add_directory without its `directory not in self.directories`.
AddDirectoryAnyDirectory(d) == IsDir(d)

\* add_directory appends and returns True: the path is a directory and is
\* not in the list.
AddDirectoryAppends(d) == IsDir(d) /\ ~InSeq(d, directories)

\* remove_directory removes and returns True: the path is in the list.
RemoveDirectoryRemoves(d) == InSeq(d, directories)

\* MusicDatabase.add_directory, with what it returns.
AddDirectoryCall(d) ==
    /\ config_ops < MaxConfigCalls
    /\ config_ops' = config_ops + 1
    /\ directories' = IF AddDirectoryAppends(d)
                      THEN Append(directories, d)
                      ELSE directories
    /\ result' = [op |-> "add_directory", directory |-> d,
                  value |-> AddDirectoryAppends(d)]
    /\ UNCHANGED << music_files, file_extensions, is_scanning, scan_thread,
                    scan_progress_callback, pc, WorkerLocals, caller, scan_ret,
                    Ghosts, scan_button, ExtractorVars >>

\* MusicDatabase.remove_directory, with what it returns.
RemoveDirectoryCall(d) ==
    /\ config_ops < MaxConfigCalls
    /\ config_ops' = config_ops + 1
    /\ directories' = IF RemoveDirectoryRemoves(d)
                      THEN RemoveFirst(directories, d)
                      ELSE directories
    /\ result' = [op |-> "remove_directory", directory |-> d,
                  value |-> RemoveDirectoryRemoves(d)]
    /\ UNCHANGED << music_files, file_extensions, is_scanning, scan_thread,
                    scan_progress_callback, pc, WorkerLocals, caller, scan_ret,
                    Ghosts, scan_button, ExtractorVars >>

\* MusicDatabase.set_extensions, which returns nothing.
SetExtensionsCall(extensions) ==
    /\ config_ops < MaxConfigCalls
    /\ config_ops' = config_ops + 1
    /\ file_extensions' = extensions
    /\ result' = [op |-> "set_extensions", extensions |-> extensions]
    /\ UNCHANGED << music_files, directories, is_scanning, scan_thread,
                    scan_progress_callback, pc, WorkerLocals, caller, scan_ret,
                    Ghosts, scan_button, ExtractorVars >>

ConfigNext ==
    \/ \E d \in DirectoryArguments : AddDirectoryCall(d)
    \/ \E d \in DirectoryArguments : RemoveDirectoryCall(d)
    \/ \E e \in ExtensionArguments : SetExtensionsCall(e)

ConfigSpec == Init /\ [][ConfigNext]_vars

\* -------------------------------------- scanning a configured database again

\* The directory lists add_directory can have built: no path twice.
DirectoryLists ==
    {dirs \in SeqsUpTo(DirNames, Cardinality(DirNames)) :
        dirs # << >> /\ \A i, j \in 1..Len(dirs) : dirs[i] = dirs[j] => i = j}

\* The extension filters of the configured database.
ExtensionFilters == {DefaultExtensions} \cup ExtensionChoices

\* A database whose directories and extensions were set at start-up (as the
\* application does before its window opens) and are not changed afterwards.
RescanInit ==
    /\ directories \in DirectoryLists
    /\ file_extensions \in ExtensionFilters
    /\ music_files = << >>
    /\ is_scanning = FALSE
    /\ scan_thread = NoThread
    /\ scan_progress_callback = NoCallback
    /\ pc = [w \in Workers |-> "idle"]
    /\ total_files = [w \in Workers |-> 0]
    /\ processed_files = [w \in Workers |-> 0]
    /\ dir_iter = [w \in Workers |-> 0]
    /\ directory = [w \in Workers |-> ""]
    /\ file_iter = [w \in Workers |-> 0]
    /\ caller = "idle"
    /\ scan_ret = "None"
    /\ config_ops = 0
    /\ reports = [w \in Workers |-> << >>]
    /\ outcome = [w \in Workers |-> "none"]
    /\ built = [w \in Workers |-> << >>]
    /\ snap_total = [w \in Workers |-> 0]
    /\ cancel_after_start = [w \in Workers |-> FALSE]
    /\ cancel_while_alive = [w \in Workers |-> FALSE]
    /\ last_complete = << >>
    /\ search_view = NoView
    /\ result = NoResult
    /\ scan_button = "normal"
    /\ ExtractorInit

RescanNext ==
    \/ \E cb \in Callbacks : ScanDirectories(cb)
    \/ CancelScan
    \/ JoinReturn
    \/ \E w \in Workers : ScanWorker(w)

RescanSpec == RescanInit /\ [][RescanNext]_vars

\* The database configured with the one directory /music/sub and the default
\* extensions.
OneDirectoryInit ==
    /\ RescanInit
    /\ directories = << SubDir >>
    /\ file_extensions = DefaultExtensions

\* Repeated scans of that database, the worker threads scheduled fairly: a
\* thread that can take a step of _scan_worker eventually takes it.
FairRescanSpec ==
    /\ OneDirectoryInit
    /\ [][RescanNext]_vars
    /\ \A w \in Workers : WF_vars(ScanWorker(w))

\* ------------------------------------------------- the Scan button's window

\* MusicPlaylistManagerApp.scan_directories, the command of the Scan button
\* (a disabled button runs no command; without directories the method only
\* warns and changes nothing): it disables the button and calls
\* MusicDatabase.scan_directories with update_scan_progress, ignoring what
\* the call returns.
AppScanDirectories ==
    /\ scan_button = "normal"
    /\ directories # << >>
    /\ scan_button' = "disabled"
    /\ MusicDatabaseScanDirectories("update_scan_progress")

AppNext ==
    \/ AppScanDirectories
    \/ \E w \in Workers : ScanWorker(w)

\* The application with its directories and extensions loaded from the
\* settings, the user clicking Scan whenever the button allows it.
AppSpec == RescanInit /\ [][AppNext]_vars

\* ------------------------------------------- extracting a Spotify playlist

\* Number of pages of the playlist that is extracted.
MaxPages == 2

\* Tracks a page of the playlist holds.
PageSizes == {0, 1}

\* The playlists: their pages, each with its number of tracks.
Playlists == SeqsUpTo(PageSizes, MaxPages)

\* What extract_playlist_id returns for the URL passed: an id or None.
PlaylistIds == {"id", NoPlaylistId}

MsgInvalidUrl == "Invalid Spotify playlist URL"

MsgExtractionCancelled == "Extraction cancelled"

MsgNoTracks == "No tracks found or error occurred"

MsgSaved == "Successfully saved"

MsgSaveError == "Error saving file"

\* The variables SpotifyExtractor does not touch.
MusicVars ==
    << music_files, directories, file_extensions, is_scanning, scan_thread,
       scan_progress_callback, pc, WorkerLocals, caller, scan_ret, config_ops,
       Ghosts, result, scan_button >>

\* SpotifyExtractorGUI.start_extraction: the thread that will run
\* run_extraction is started for a URL and the playlist it names; the Cancel
\* button is enabled from here on.
StartExtraction(id, pages) ==
    /\ extract_pc = "idle"
    /\ extract_pc' = "launched"
    /\ playlist_id' = id
    /\ next_url' = pages
    /\ UNCHANGED << is_extracting, tracks, output_file, extract_ret,
                    cancel_before_save, MusicVars >>

\* extract_playlist up to the call of get_playlist_tracks: is_extracting is
\* set, and a URL without an id ends the extraction.
ExtractPlaylistBegin ==
    /\ extract_pc = "launched"
    /\ is_extracting' = TRUE
    /\ IF playlist_id = NoPlaylistId
       THEN /\ extract_ret' = MsgInvalidUrl
            /\ extract_pc' = "returned"
       ELSE /\ extract_pc' = "authenticate"
            /\ UNCHANGED extract_ret
    /\ UNCHANGED << playlist_id, next_url, tracks, output_file,
                    cancel_before_save, MusicVars >>

\* get_playlist_tracks: authenticate() succeeds, or fails and the method
\* returns [].
Authenticate(success) ==
    /\ extract_pc = "authenticate"
    /\ extract_pc' = IF success THEN "loop" ELSE "cancel_check"
    /\ UNCHANGED << is_extracting, playlist_id, next_url, tracks, output_file,
                    extract_ret, cancel_before_save, MusicVars >>

\* get_playlist_tracks: `while next_url and self.is_extracting`; when the
\* test fails the method returns the tracks collected.
LoopTest ==
    /\ extract_pc = "loop"
    /\ extract_pc' = IF next_url # << >> /\ is_extracting
                     THEN "request" ELSE "cancel_check"
    /\ UNCHANGED << is_extracting, playlist_id, next_url, tracks, output_file,
                    extract_ret, cancel_before_save, MusicVars >>

\* get_playlist_tracks: one page is fetched and its tracks are appended, or
\* the request raises and the method returns [].
FetchPage(success) ==
    /\ extract_pc = "request"
    /\ IF success
       THEN /\ tracks' = tracks + Head(next_url)
            /\ next_url' = Tail(next_url)
            /\ extract_pc' = "loop"
       ELSE /\ tracks' = 0
            /\ extract_pc' = "cancel_check"
            /\ UNCHANGED next_url
    /\ UNCHANGED << is_extracting, playlist_id, output_file, extract_ret,
                    cancel_before_save, MusicVars >>

\* extract_playlist: `if not self.is_extracting` after get_playlist_tracks.
CancelCheck ==
    /\ extract_pc = "cancel_check"
    /\ IF ~is_extracting
       THEN /\ extract_ret' = MsgExtractionCancelled
            /\ extract_pc' = "returned"
       ELSE /\ extract_pc' = "tracks_check"
            /\ UNCHANGED extract_ret
    /\ UNCHANGED << is_extracting, playlist_id, next_url, tracks, output_file,
                    cancel_before_save, MusicVars >>

\* extract_playlist: `if not tracks`.
TracksCheck ==
    /\ extract_pc = "tracks_check"
    /\ IF tracks = 0
       THEN /\ extract_ret' = MsgNoTracks
            /\ extract_pc' = "returned"
       ELSE /\ extract_pc' = "save"
            /\ UNCHANGED extract_ret
    /\ UNCHANGED << is_extracting, playlist_id, next_url, tracks, output_file,
                    cancel_before_save, MusicVars >>

\* save_to_file called by extract_playlist: the file is written, or open or
\* write raises, before or after the file was created.
SaveToFile(success, created) ==
    /\ extract_pc = "save"
    /\ extract_ret' = IF success THEN MsgSaved ELSE MsgSaveError
    /\ output_file' = IF success \/ created THEN "written" ELSE output_file
    /\ extract_pc' = "returned"
    /\ UNCHANGED << is_extracting, playlist_id, next_url, tracks,
                    cancel_before_save, MusicVars >>

\* SpotifyExtractorGUI.extraction_finished, scheduled by run_extraction when
\* extract_playlist has returned: the Cancel button is disabled.
ExtractionFinished ==
    /\ extract_pc = "returned"
    /\ extract_pc' = "finished"
    /\ UNCHANGED << is_extracting, playlist_id, next_url, tracks, output_file,
                    extract_ret, cancel_before_save, MusicVars >>

\* SpotifyExtractorGUI.cancel_extraction -> SpotifyPlaylistExtractor
\* .cancel_extraction, the command of the Cancel button while it is enabled.
CancelExtraction ==
    /\ extract_pc \notin {"idle", "finished"}
    /\ is_extracting' = FALSE
    /\ cancel_before_save' = (cancel_before_save \/ extract_pc # "returned")
    /\ UNCHANGED << extract_pc, playlist_id, next_url, tracks, output_file,
                    extract_ret, MusicVars >>

ExtractNext ==
    \/ \E id \in PlaylistIds, pages \in Playlists : StartExtraction(id, pages)
    \/ ExtractPlaylistBegin
    \/ \E success \in BOOLEAN : Authenticate(success)
    \/ LoopTest
    \/ \E success \in BOOLEAN : FetchPage(success)
    \/ CancelCheck
    \/ TracksCheck
    \/ \E success, created \in BOOLEAN : SaveToFile(success, created)
    \/ ExtractionFinished
    \/ CancelExtraction

ExtractSpec == Init /\ [][ExtractNext]_vars

\* ----------------------------------------------------------------- claims

Last(seq) == seq[Len(seq)]

\* Terminal progress reports among the callbacks a worker delivered.
TerminalCount(seq) ==
    Cardinality({i \in 1..Len(seq) : seq[i].message \in TerminalMessages})

\* Worker threads executing _scan_worker.
Alive == {w \in Workers : IsAlive(w)}

\* C1: for every interleaving of scan_directories and cancel_scan calls, at
\* most one worker thread is executing _scan_worker at any moment.
AtMostOneScanWorker == Cardinality(Alive) <= 1

\* C2: search and match_playlist, whenever they are called, iterate a complete
\* record set produced by a finished scan (the latest completed one, or the
\* initial empty set), never one a scan has cleared or only partly filled.
SearchReadsCompleteSet ==
    caller = "searching" => search_view.files = search_view.complete

ScanUsesConfigurationAtStart ==
    \A w \in Workers :
        (outcome[w] = "completed" /\ pc[w] = "finally")
            => /\ total_files[w] = snap_total[w]
               /\ processed_files[w] = snap_total[w]

CancelledOnlyOnRequest ==
    \A w \in Workers : outcome[w] = "cancelled" => cancel_after_start[w]

\* C7: when a scan ends with the cancellation report, the report carries
\* processed <= total, and music_files holds exactly the records that scan
\* built, until the next scan_directories call.
CancelledScanRecordSet ==
    \A w \in Workers :
        outcome[w] = "cancelled" =>
            /\ (reports[w] # << >> /\ Last(reports[w]).message = MsgCancelled)
                   => Last(reports[w]).processed <= Last(reports[w]).total
            /\ music_files = built[w]

\* C8: scan_directories called while is_scanning is true returns False and
\* changes nothing: no field of the database, no worker, no new thread.
BusyScanChangesNothing ==
    [][(is_scanning /\ \E cb \in Callbacks : ScanDirectories(cb)) =>
          /\ scan_ret' = "False"
          /\ UNCHANGED << music_files, directories, file_extensions,
                          is_scanning, scan_thread, scan_progress_callback,
                          pc, WorkerLocals, reports, built >>]_vars

\* C8 witness: scan_directories has returned False while a worker is running.
BusyScanWitness ==
    /\ scan_ret = "False"
    /\ is_scanning
    /\ Alive # {}

\* C9: under fair scheduling every started scan worker ends, is_scanning
\* becomes false again, and scan_directories called while is_scanning is
\* false is accepted.
ScanTerminates ==
    /\ \A w \in Workers : IsAlive(w) ~> (pc[w] = "done")
    /\ is_scanning ~> ~is_scanning
    /\ [][(~is_scanning /\ \E cb \in Callbacks : ScanDirectories(cb)) =>
              /\ scan_ret' = "True"
              /\ is_scanning'
              /\ IsAlive(scan_thread)']_vars

\* C9 witness: a scan has ended, is_scanning is false again, and a second
\* scan_directories call was accepted after it.
ScanTerminatesWitness ==
    /\ pc[1] = "done"
    /\ pc[2] = "done"
    /\ ~is_scanning
    /\ scan_ret = "True"

\* full_path values of a record list are pairwise different.
UniquePaths(files) ==
    \A i, j \in 1..Len(files) :
        files[i].full_path = files[j].full_path => i = j

\* C10: after a completed scan no two records of music_files have the same
\* full_path, whatever the directory list.
CompletedScanPathsUnique ==
    \A w \in Workers : outcome[w] = "completed" => UniquePaths(music_files)

\* C11: when a scan-level failure (an exception outside the per-file try)
\* occurs, the scan stops and the last progress callback the worker delivered
\* is the error message with counts (0, 0).
ScanFailureEndsWithErrorReport ==
    \A w \in Workers :
        (pc[w] = "done" /\ outcome[w] = "failed" /\ reports[w] # << >>)
            => Last(reports[w]) = Progress(MsgError, 0, 0, NoCount)

\* The file the worker is about to build cannot be read.
BuildingUnreadable(w) ==
    /\ pc[w] = "build"
    /\ LET f == Walk(directory[w])[file_iter[w] + 1]
       IN  PathJoin(f.root, f.file) \in Unreadable

\* C12: when building the MusicFile of a qualifying file raises, the file is
\* not added to music_files, the processed count advances by one, no error is
\* reported and the scan goes on with the remaining files; a scan that then
\* runs to the end ends with the completion report.
FileFailureIsSkipped ==
    [][\A w \in Workers :
          /\ (BuildingUnreadable(w) /\ pc'[w] # "build") =>
                /\ music_files' = music_files
                /\ processed_files'[w] = processed_files[w] + 1
                /\ pc'[w] \in {"scan_file", "scan_dir"}
                /\ outcome'[w] = "none"
                /\ \A i \in 1..Len(reports'[w]) :
                       reports'[w][i].message # MsgError
          /\ (pc[w] = "report_complete" /\ pc'[w] # "report_complete"
                  /\ outcome'[w] = "completed"
                  /\ scan_progress_callback # NoCallback) =>
                Last(reports'[w]).message = MsgComplete]_vars

\* C12 witness: a scan over an unreadable and a readable file has ended with
\* the completion report: both files were counted and processed, one record
\* was built.
FileFailureWitness ==
    \E w \in Workers :
        /\ pc[w] = "done"
        /\ outcome[w] = "completed"
        /\ reports[w] # << >>
        /\ Last(reports[w]) = Progress(MsgComplete, 2, 2, 1)
        /\ built[w] = << MusicFile(PathJoin(SubDir, FileY)) >>

\* Per-file progress reports among the callbacks a worker delivered.
ScannedCount(seq) ==
    Cardinality({i \in 1..Len(seq) : seq[i].message = MsgScanned})

\* C13: in pass 2 one progress callback is issued after each qualifying file,
\* carrying the number of files processed so far and the pass-1 total (here:
\* for the only scan started, with a progress callback stored); the scan that
\* runs to the end then reports (total, total) and the number of records.
EveryFileReported ==
    \A w \in Workers :
        (Cardinality(Started) = 1 /\ scan_progress_callback # NoCallback) =>
            /\ pc[w] \in {"scan_dir", "scan_file", "build", "report_complete"} =>
                  /\ ScannedCount(reports[w]) = processed_files[w]
                  /\ \A i \in 1..Len(reports[w]) :
                         reports[w][i].message = MsgScanned =>
                             reports[w][i].total = total_files[w]
            /\ (pc[w] = "finally" /\ outcome[w] = "completed") =>
                  Last(reports[w]) =
                      Progress(MsgComplete, total_files[w], total_files[w],
                               Len(music_files))

\* x > y on scores.
ScoreGreater(x, y) == x.num * y.den > y.num * x.den

\* `value` holds exactly the pairs (file, score) of `files` whose match_query
\* score reaches the threshold, by descending score, pairs of equal score in
\* the order in which they occur in `files`.
IsFilteredAndOrdered(value, files, query, threshold) ==
    LET ScoreOf(i) == MatchQuery(files[i], query, threshold)
        hits == {i \in 1..Len(files) : Reaches(ScoreOf(i), threshold)}
    IN  /\ Len(value) = Cardinality(hits)
        /\ \E pos \in [1..Len(value) -> hits] :
              /\ \A k, l \in 1..Len(value) : pos[k] = pos[l] => k = l
              /\ \A k \in 1..Len(value) :
                     value[k] = [file |-> files[pos[k]], score |-> ScoreOf(pos[k])]
              /\ \A k, l \in 1..Len(value) :
                     k < l =>
                         \/ ScoreGreater(value[k].score, value[l].score)
                         \/ /\ value[k].score = value[l].score
                            /\ pos[k] < pos[l]

\* C14 (as claimed): search(query, threshold) returns exactly the pairs
\* (file, score) of music_files whose match_query score is >= threshold,
\* ordered by descending score, equal scores in order of occurrence.
SearchIsFilterAndSort ==
    result.op = "search" =>
        IsFilteredAndOrdered(result.value, music_files, result.query,
                             result.threshold)

\* C14 (amended): for a query that is not blank, search returns exactly the
\* pairs whose score is >= threshold, by descending score, equal scores in
\* order of occurrence; for a blank query it returns the empty list.
SearchOfNonBlankIsFilterAndSort ==
    result.op = "search" =>
        IF Strip(result.query) = << >>
        THEN result.value = << >>
        ELSE IsFilteredAndOrdered(result.value, music_files, result.query,
                                  result.threshold)

\* C14 witness: a search has returned two different records with equal scores,
\* in the order of music_files.
SearchTieWitness ==
    /\ result.op = "search"
    /\ Len(result.value) = 2
    /\ result.value[1].score = result.value[2].score
    /\ result.value[1].file # result.value[2].file
    /\ result.value[1].file = music_files[1]

\* C15: match_playlist returns a list as long as the entries, whose i-th
\* element pairs entries[i] with its matches; an entry that matches nothing
\* keeps an empty inner list.
PlaylistShape ==
    result.op = "match_playlist" =>
        /\ Len(result.value) = Len(result.entries)
        /\ \A i \in 1..Len(result.entries) :
               /\ result.value[i].entry = result.entries[i]
               /\ IsFilteredAndOrdered(result.value[i].matches, music_files,
                                       result.entries[i], result.threshold)

\* C15 witness: a playlist whose first entry matches nothing and whose second
\* entry matches a record.
PlaylistShapeWitness ==
    /\ result.op = "match_playlist"
    /\ Len(result.entries) = 2
    /\ Len(result.value) = 2
    /\ result.value[1].matches = << >>
    /\ result.value[2].matches # << >>

\* C16: for every entry and threshold, the inner list match_playlist produces
\* equals search(entry, threshold) on the same records, blank entries included.
PlaylistEqualsSearch ==
    result.op = "match_playlist" =>
        \A i \in 1..Len(result.entries) :
            result.value[i].matches =
                SearchResults(music_files, result.entries[i], result.threshold)

\* The tokens of a query: the maximal runs of word characters of the query in
\* lower case.
QueryTokens(query) ==
    LET q == Lower(query)
    IN  {SubSeq(q, i, j) : <<i, j>> \in
            {p \in (1..Len(q)) \X (1..Len(q)) :
                /\ p[1] <= p[2]
                /\ \A k \in p[1]..p[2] : IsWord(q[k])
                /\ (p[1] = 1 \/ ~IsWord(q[p[1] - 1]))
                /\ (p[2] = Len(q) \/ ~IsWord(q[p[2] + 1]))}}

\* The record fails the gate: the query has no token, or one of its tokens
\* is not a substring of the haystack text.
GateFails(file, query) ==
    \/ QueryTokens(query) = {}
    \/ \E token \in QueryTokens(query) : ~Contains(HaystackText(file), token)

\* C17: a record that fails the gate for a query is in no result of search or
\* match_playlist, for any threshold from 0.0 to 1.0.
GateFailureIsNeverReturned ==
    /\ result.op = "search" =>
           \A k \in 1..Len(result.value) :
               ~GateFails(result.value[k].file, result.query)
    /\ result.op = "match_playlist" =>
           \A i \in 1..Len(result.value) :
               \A k \in 1..Len(result.value[i].matches) :
                   ~GateFails(result.value[i].matches[k].file, result.entries[i])

\* C18: match_query returns exactly 0.0, for every threshold, when the query
\* has no token or one of its tokens is not a substring of the lower-cased
\* text 'filename artist song'; being a substring is enough to pass, the
\* token need not be a token of the text, and the score is then above 0.0.
GateGivesZero ==
    result.op = "match_query" =>
        /\ GateFails(result.file, result.query) => result.value = ScoreZero
        /\ ~GateFails(result.file, result.query) =>
               ScoreGreater(result.value, ScoreZero)

\* C18 witness: at threshold 0.0 match_query has returned 0.0 for a query
\* with a token that the text lacks.
GateGivesZeroWitness ==
    /\ result.op = "match_query"
    /\ result.threshold = 0
    /\ QueryTokens(result.query) # {}
    /\ GateFails(result.file, result.query)
    /\ result.value = ScoreZero

\* The stem has the form A_-_B with A and B non-empty and free of hyphens and
\* underscores.
IsArtistSongStem(stem, A, B) ==
    /\ stem = A \o <<"_", "-", "_">> \o B
    /\ A # << >>
    /\ B # << >>
    /\ \A i \in 1..Len(A) : A[i] \notin {"-", "_"}
    /\ \A i \in 1..Len(B) : B[i] \notin {"-", "_"}

\* C19: for a file whose stem has the form A_-_B, with A and B non-empty and
\* without hyphen or underscore, _parse_filename sets artist = A and song = B
\* (here: for stems that do not start with a digit, so that no track number
\* is removed).
ArtistSongStemIsSplit ==
    (result.op = "MusicFile" /\ ~IsDigit(result.filename[1])) =>
        LET stem == SplitExtRoot(result.filename)
        IN  \A n \in 1..(Len(stem) - 4) :
                IsArtistSongStem(stem, SubSeq(stem, 1, n),
                                 SubSeq(stem, n + 4, Len(stem)))
                    => /\ result.value.artist = SubSeq(stem, 1, n)
                       /\ result.value.song = SubSeq(stem, n + 4, Len(stem))

\* C20: for every file with a non-empty stem, built without embedded tags,
\* artist and song are not both empty.
ArtistOrSongIsSet ==
    (result.op = "MusicFile" /\ result.audio = NoAudio
        /\ SplitExtRoot(result.filename) # << >>)
        => ~(result.value.artist = << >> /\ result.value.song = << >>)

\* str.lower() and the removal of one leading dot.
Normalised(extension) ==
    LET e == Lower(extension)
    IN  IF e # << >> /\ Head(e) = "." THEN Tail(e) ELSE e

\* C21: after set_extensions(S) the filter holds every element of S in lower
\* case and without its leading dot, so that the file "x.mp3" qualifies
\* whenever S holds "mp3" in any case, with or without the dot.
ExtensionFilterIsNormalised ==
    result.op = "set_extensions" =>
        /\ \A e \in result.extensions : Normalised(e) \in file_extensions
        /\ <<"m", "p", "3">> \in {Normalised(e) : e \in result.extensions}
               => Qualifies(FileX, file_extensions)

\* No path is twice in the directory list.
NoDuplicateDirectory ==
    \A i, j \in 1..Len(directories) : directories[i] = directories[j] => i = j

\* The list without the path d.
Without(seq, d) == SelectSeq(seq, LAMBDA x : x # d)

\* One call of add_directory or remove_directory: what it returns and what
\* it does to the list, and that the same call made again right after it
\* returns False and changes nothing.
ConfigCallContract ==
    config_ops' = config_ops + 1 /\ result'.op # "set_extensions" =>
        LET d == result'.directory
            add == result'.op = "add_directory"
            expected == IF add
                        THEN IsDir(d) /\ ~InSeq(d, directories)
                        ELSE InSeq(d, directories)
        IN  /\ result'.value = expected
            /\ directories' =
                   IF ~expected THEN directories
                   ELSE IF add THEN Append(directories, d)
                   ELSE Without(directories, d)
            /\ (result.op = result'.op /\ result.directory = d)
                   => ~result'.value /\ directories' = directories

\* C23: add_directory appends and returns True exactly for an existing
\* directory that is not in the list, remove_directory removes and returns
\* True exactly for a path in the list, both otherwise return False and
\* change nothing; the list never holds a path twice and a repeated call
\* returns False without effect.
DirectoryCallsKeepListUnique ==
    []NoDuplicateDirectory /\ [][ConfigCallContract]_vars

\* An add_directory call was refused for a directory already in the list.
RepeatedAddWitness ==
    /\ result.op = "add_directory"
    /\ ~result.value
    /\ InSeq(result.directory, directories)
    /\ Len(directories) = 2

\* C22: a non-empty artist or song that _parse_filename produced is the
\* artist or song of the constructed MusicFile, whatever the tags hold and
\* wherever reading them fails; a field differs from the parsed one only if
\* the parser left it empty and the tag of that name was read.
ParsedFieldsSurviveTags ==
    result.op = "MusicFile" =>
        LET parsed == ParseFilename(result.filename)
            file == result.value
            audio == result.audio
        IN  /\ parsed.artist # << >> => file.artist = parsed.artist
            /\ parsed.song # << >> => file.song = parsed.song
            /\ file.artist # parsed.artist =>
                   /\ parsed.artist = << >>
                   /\ "artist" \in audio.keys /\ file.artist = audio.artist
            /\ file.song # parsed.song =>
                   /\ parsed.song = << >>
                   /\ "title" \in audio.keys /\ file.song = audio.title
            /\ file.track_num = parsed.track_num

\* A tagged file whose name gave an artist and no song: the artist is the
\* parsed one, the song is the tag's title.
ParsedFieldsWitness ==
    /\ result.op = "MusicFile"
    /\ result.audio.keys = {"artist", "title"}
    /\ result.audio.raises = "never"
    /\ ParseFilename(result.filename).artist # << >>
    /\ ParseFilename(result.filename).song = << >>
    /\ result.value.artist = ParseFilename(result.filename).artist
    /\ result.value.artist # result.audio.artist
    /\ result.value.song = result.audio.title

\* No pattern splits the de-tracked stem into two parts that are both
\* non-empty after trimming.
NoPatternSplits(stem) ==
    \A i \in 1..Len(FilenamePatterns(stem)) :
        LET m == FilenamePatterns(stem)[i]
        IN  ~(m.ok /\ Strip(m.g1) # << >> /\ Strip(m.g2) # << >>)

\* C25: when no pattern splits the de-tracked stem into two non-empty
\* trimmed parts, _parse_filename ends with an empty artist and with the
\* whole de-tracked stem as the song.
UnsplitStemIsTheSong ==
    result.op = "MusicFile" =>
        LET stem == Detracked(SplitExtRoot(result.filename))
            parsed == ParseFilename(result.filename)
        IN  NoPatternSplits(stem) =>
                parsed.artist = << >> /\ parsed.song = stem

\* The record sets a scan of the model's file system can leave.
ScanRecordLists ==
    LET paths == UNION {{PathJoin(Walk(d)[i].root, Walk(d)[i].file) :
                            i \in 1..Len(Walk(d))} : d \in DirNames}
    IN  SeqsUpTo({MusicFile(path) : path \in paths \ Unreadable},
                 Cardinality(DirNames))

\* Worker w has ended, no scan was started after it, and every scan before
\* it had ended when it was started.
RanAlone(w) ==
    /\ pc[w] = "done"
    /\ \A v \in Workers : v > w => pc[v] = "idle"
    /\ \A v \in Workers : v < w => pc[v] = "done" /\ outcome[v] = "none"

\* C24: a scan that completes after the scan before it had completed and
\* ended, with the same directories, extensions and files, leaves the records
\* the scan before it left: the same paths and, for each path, the same
\* artist, song, track number and size.
RescanGivesSameRecords ==
    \A w \in Workers \ {MaxScans}, records \in ScanRecordLists :
        [](RanAlone(w) /\ outcome[w] = "completed" /\ last_complete = records
           => [](RanAlone(w + 1) /\ outcome[w + 1] = "completed"
                 => last_complete = records))

\* Two scans of both directories in a row: the second has completed with the
\* two records the first had left.
RescanWitness ==
    /\ pc[2] = "done" /\ outcome[2] = "completed"
    /\ pc[1] = "done" /\ outcome[1] = "none"
    /\ Len(last_complete) = 2
    /\ music_files = last_complete

\* C26: within one scan, the ratio processed / total of the progress
\* callbacks that carry a total > 0 never decreases from one callback to a
\* later one, the terminal report included.
ProgressNeverDecreases ==
    \A w \in Workers :
        \A i, j \in 1..Len(reports[w]) :
            (i < j /\ reports[w][i].total > 0 /\ reports[w][j].total > 0) =>
                reports[w][i].processed * reports[w][j].total
                    <= reports[w][j].processed * reports[w][i].total

\* C27: every record in music_files was appended by the worker of the scan
\* started last; a worker of an earlier scan appends nothing to the record
\* set of a later scan.
RecordsAreOfLatestScan ==
    scan_thread # NoThread => music_files = built[scan_thread]

\* C28: the Scan button that the window's scan_directories disabled is set
\* back to normal by a later progress callback: it is disabled only while a
\* scan worker is running, which will deliver that callback.
ButtonDisabledOnlyWhileScanning ==
    scan_button = "disabled" => \E w \in Workers : IsAlive(w)

\* cancel_scan was called after scan v had ended, and no scan was started
\* since: a cancel_scan call made while no scan is running.
AfterIdleCancel(v) ==
    /\ pc[v] = "done"
    /\ cancel_after_start[v] /\ ~cancel_while_alive[v]
    /\ Alive = {}
    /\ \A u \in Workers : u > v => pc[u] = "idle"

\* Scan w has ended, cancel_scan was not called during it, and no scan was
\* started after it.
EndedUncancelled(w) ==
    /\ pc[w] = "done"
    /\ ~cancel_while_alive[w]
    /\ \A u \in Workers : u > w => pc[u] = "idle"

CancelStopsExtraction ==
    cancel_before_save =>
        /\ output_file = "absent"
        /\ extract_pc \in {"returned", "finished"}
               => extract_ret = MsgExtractionCancelled

====
